---- MODULE Spec2Model ----
(***************************************************************************)
(* SeeClaw agent engine: the enum state machine run loop, its command      *)
(* surface (start_task / stop_task / confirm_action), the mpsc event       *)
(* channel the commands feed, the streaming planner call, the executor     *)
(* step and the visual-stability wait.                                     *)
(*                                                                         *)
(* The Rust engine itself is only present as fragments (the run_loop arms  *)
(* for Idle and WaitingForUser, the WaitingForStability arm, the           *)
(* needs_stability test and stream_chat); the rest of the loop (planning   *)
(* dispatch, failure counter, duration limit, stop boundary, start_task)   *)
(* is modelled from the specification.                                     *)
(***************************************************************************)
EXTENDS Integers, Sequences, FiniteSets, TLC

\* ------------------------------------------------------------------ bounds
MaxCycles == 2      \* planning cycles in one run
MaxTime   == 2      \* wall-clock ticks in one run
MaxQueue  == 1      \* events held by the mpsc channel
MaxChunks == 1      \* stream chunks forwarded in one model turn
MaxGridN  == 53     \* largest SoM grid size drawn
MaxLines  == 2      \* SSE data lines in one planner turn
MaxCalls  == 2      \* tool_calls entries in one SSE delta
MaxWindow == 3      \* most recent frame differences remembered for the claims
MaxTasks  == 1      \* tasks the chat window gets started
MaxEvents == 2      \* Tauri events emitted and not yet handled by the window
MaxClicks == 2      \* command invocations of one kind still awaited by the window
MaxMounts == 3      \* runs of one useTauriEvent effect (mounts and re-renders)
MaxEmits == 2       \* backend events emitted towards one useTauriEvent call site

\* ------------------------------------------------------------- vocabulary
\* AgentState tags (new state machine)
AgentStates ==
    {"Idle", "Planning", "Executing", "WaitingForStability",
     "WaitingForUser", "Error", "Done"}

\* a run is active in every state but these
TerminalStates == {"Idle", "Error", "Done"}

\* AgentEvent values that confirm_action sends through the channel
ApprovalEvents == {"UserApproved", "UserRejected"}

\* an event in the channel; "pending" records whether an approval request was
\* pending (the engine was in WaitingForUser) when the call that sent it arrived
ChannelEvent(kind, pending) == [kind |-> kind, pending |-> pending]

\* ordinary tools the planner can call in this model: one that changes the
\* screen, one high-risk one, one that does neither
ActionTypes == {"mouse_click", "execute_terminal", "wait"}

\* everything a completed planner turn can carry
PlannerTools == ActionTypes \cup {"finish_task", "report_failure"}

NoAction == [type |-> "none", id |-> 0]

\* [safety] configurations explored
ApprovalLists == {{"execute_terminal"}, {"execute_terminal", "mouse_click"}}
FailureLimits == {1, 2}
DurationLimits == {0, 1}

VARIABLES
    state,          \* AgentState tag
    action,         \* payload of Executing / WaitingForStability / WaitingForUser
    phase,          \* "boundary": at the top of run_loop; "busy": inside the arm's await
    message,        \* Error{message} / Done{summary} kind
    stop_flag,      \* Arc<AtomicBool> set by stop_task
    event_rx,       \* mpsc channel of AgentEvent
    failures,       \* consecutive-failure counter
    loopCount,      \* planning cycles begun in this run
    elapsed,        \* wall-clock ticks since the run began
    history,        \* append-only run history of ActionResult
    chunks,         \* llm_stream_chunk events emitted in the current turn
    require_approval_for,
    max_consecutive_failures,
    max_duration,
    startResult,    \* what the last start_task call returned
    startSeq,       \* flips on every start_task call
    activeRuns,     \* runs begun and not yet ended
    awaited,        \* ids of actions that went through WaitingForUser in this run
    rejected,       \* id of the action a received UserRejected was for
    stopAt,         \* <<state, phase, channel empty>> when the first stop_task of this run arrived
    firstTurn,      \* tool call of the first planner turn of this run
    executions      \* transitions into Executing in this run

\* SoM grid labels (vision/som_grid.rs)
VARIABLES
    grid_n,         \* grid size N of draw_som_grid
    cell,           \* the cell <<col, row>> being labelled, 0-indexed
    label,          \* the label drawn for it, a sequence of character codes
    coord,          \* what parse_grid_label returned for the label
    lpc             \* "cell": nothing done; "drawn": labelled; "parsed": parsed back

labelVars == <<grid_n, cell, label, coord, lpc>>

\* one planner turn seen through stream_chat and parse_sse_line (llm/)
VARIABLES
    sse_calls,      \* delta.tool_calls of the SSE line just read (None if absent)
    chunk_out,      \* the LlmStreamChunk emitted for it
    honored,        \* the tool call extracted from the turn so far
    attempted,      \* names of the tool calls the provider sent, in arrival order
    linesSeen,      \* SSE data lines read in this turn
    tpc             \* "streaming" or "done" (data: [DONE] was read)

turnVars == <<sse_calls, chunk_out, honored, attempted, linesSeen, tpc>>

\* one Executor call (executor/mod.rs)
VARIABLES
    elements,       \* ids of ctx.elements, the snapshot the action refers to
    element_id,     \* the element id the action names
    move_ok,        \* whether enigo.move_mouse succeeds
    button_ok,      \* whether enigo.button succeeds
    exec_result,    \* what execute_click returned
    action_result,  \* the ActionResult made of it
    epc             \* "idle", "called" or "returned"

execVars ==
    <<elements, element_id, move_ok, button_ok, exec_result, action_result, epc>>

\* one wait_for_visual_stability call (perception/stability.rs)
VARIABLES
    waited_ms,          \* time spent in the call so far
    has_last_frame,     \* last_frame_hash is Some
    stable_frame_count, \* VisualStabilityDetector.stable_frame_count
    cancel,             \* the stop_flag handed to the call
    stab_result,        \* None while waiting, then Ok(true), Ok(false) or Err
    recent,             \* the last MaxWindow frame differences, in thousandths
    spc                 \* "idle", "waiting" or "returned"

stabVars ==
    <<waited_ms, has_last_frame, stable_frame_count, cancel, stab_result, recent, spc>>

\* the chat window (src-ui: AgentStore, SettingsStore, App, InputBar, ApprovalCard)
VARIABLES
    ui_state,           \* AgentStore.state
    messages,           \* AgentStore.messages, the assistant messages
    currentStreamingId, \* index into messages, 0 for null
    pendingApproval,    \* AgentStore.pendingApproval
    permanentlyAllowed, \* SettingsStore.permanentlyAllowed
    ui_events,          \* events emitted by the backend, not yet handled
    ui_pending,         \* invoke() calls whose continuation has not run yet
    tasks,              \* tasks submitted and started so far
    sent,               \* per planner turn, the chunks stream_chat emitted
    doneSeen,           \* turns whose done chunk the window has handled
    autoConfirmed,      \* ids of the requests the window confirmed by itself
    decided             \* ids of the requests the user sent a decision for

uiVars ==
    <<ui_state, messages, currentStreamingId, pendingApproval, permanentlyAllowed,
      ui_events, ui_pending, tasks, sent, doneSeen, autoConfirmed,
      decided>>

\* one call of the coordinate mapper (executor/coords.rs)
VARIABLES
    meta,               \* ScreenshotMeta; scale_factor in quarters (5 is 1.25)
    bbox,               \* normalized bbox [xmin, ymin, xmax, ymax], in quarters
    cell_label,         \* the grid label handed to grid_cell_to_physical
    cell_grid_n,        \* its grid_n
    point,              \* the PhysicalPoint returned (None before the call)
    cpc                 \* "input", "bbox" or "grid": which function was called

coordVars == <<meta, bbox, cell_label, cell_grid_n, point, cpc>>

\* transport failures of the planner call within one Planning cycle
VARIABLES
    attempts,           \* stream_chat calls of this cycle that failed so far
    transport_error     \* the error the last failed call returned

retryVars == <<attempts, transport_error>>

\* the effects of one useTauriEvent call site (src-ui: hooks/useTauriEvent.ts)
VARIABLES
    effects,            \* per effect run: active, unlisten, promise
    registered,         \* effects whose callback Tauri has registered
    invoked,            \* effects whose handler the last event invoked
    emitted             \* backend events emitted so far

hookVars == <<effects, registered, invoked, emitted>>

engineVars ==
    <<state, action, phase, message, stop_flag, event_rx, failures, loopCount,
      elapsed, history, chunks>>

configVars == <<require_approval_for, max_consecutive_failures, max_duration>>

ghostVars == <<awaited, rejected, stopAt, firstTurn, executions>>

coreVars ==
    <<state, action, phase, message, stop_flag, event_rx, failures, loopCount,
      elapsed, history, chunks, require_approval_for, max_consecutive_failures,
      max_duration, startResult, startSeq, activeRuns, awaited, rejected,
      stopAt, firstTurn, executions>>

\* the state of the components the engine's run loop does not touch
sideVars ==
    <<labelVars, turnVars, execVars, stabVars, uiVars, retryVars, coordVars,
      hookVars>>

vars == <<coreVars, sideVars>>

\* what a step of one component leaves alone
offLabel ==
    <<coreVars, turnVars, execVars, stabVars, uiVars, retryVars, coordVars, hookVars>>

offTurn ==
    <<coreVars, labelVars, execVars, stabVars, uiVars, retryVars, coordVars, hookVars>>

offExec ==
    <<labelVars, turnVars, stabVars, uiVars, retryVars, coordVars, hookVars>>

offStab ==
    <<coreVars, labelVars, turnVars, execVars, uiVars, retryVars, coordVars, hookVars>>

offUi ==
    <<labelVars, turnVars, execVars, stabVars, retryVars, coordVars, hookVars>>

offWait ==
    <<labelVars, turnVars, execVars, uiVars, retryVars, coordVars, hookVars>>

offRetry ==
    <<labelVars, turnVars, execVars, stabVars, uiVars, coordVars, hookVars>>

offCoord ==
    <<coreVars, labelVars, turnVars, execVars, stabVars, uiVars, retryVars, hookVars>>

Active == state \notin TerminalStates

\* the engine after AgentEngine::new
EngineInit ==
    /\ state = "Idle"
    /\ action = NoAction
    /\ phase = "boundary"
    /\ message = "none"
    /\ stop_flag = FALSE
    /\ event_rx = <<>>
    /\ failures = 0
    /\ loopCount = 0
    /\ elapsed = 0
    /\ history = <<>>
    /\ chunks = 0
    /\ require_approval_for \in ApprovalLists
    /\ max_consecutive_failures \in FailureLimits
    /\ max_duration \in DurationLimits
    /\ startResult = "none"
    /\ startSeq = 0
    /\ activeRuns = 0
    /\ awaited = {}
    /\ rejected = 0
    /\ stopAt = <<>>
    /\ firstTurn = "none"
    /\ executions = 0

\* no grid has been drawn
LabelsIdle ==
    /\ grid_n = 1
    /\ cell = <<0, 0>>
    /\ label = <<>>
    /\ coord = [none |-> TRUE]
    /\ lpc = "cell"

\* no planner turn is being streamed
TurnIdle ==
    /\ sse_calls = [none |-> TRUE]
    /\ chunk_out = [tool_call_index |-> [none |-> TRUE], tool_call_name |-> [none |-> TRUE]]
    /\ honored = [none |-> TRUE]
    /\ attempted = <<>>
    /\ linesSeen = 0
    /\ tpc = "streaming"

\* the Executor has not been called
ExecIdle ==
    /\ elements = {}
    /\ element_id = "e1"
    /\ move_ok = TRUE
    /\ button_ok = TRUE
    /\ exec_result = [kind |-> "none"]
    /\ action_result = [success |-> TRUE, error |-> [none |-> TRUE]]
    /\ epc = "idle"

\* no stability wait is running
StabIdle ==
    /\ waited_ms = 0
    /\ has_last_frame = FALSE
    /\ stable_frame_count = 0
    /\ cancel = FALSE
    /\ stab_result = [none |-> TRUE]
    /\ recent = <<>>
    /\ spc = "idle"

\* the chat window after its stores are constructed
UiIdle ==
    /\ ui_state = "idle"
    /\ messages = <<>>
    /\ currentStreamingId = 0
    /\ pendingApproval = [none |-> TRUE]
    /\ permanentlyAllowed = {}
    /\ ui_events = <<>>
    /\ ui_pending = [c \in {"start_task", "stop_task", "confirm_action"} |-> 0]
    /\ tasks = 0
    /\ sent = <<>>
    /\ doneSeen = {}
    /\ autoConfirmed = {}
    /\ decided = {}

\* the coordinate mapper has not been called
CoordIdle ==
    /\ meta = [logical_width |-> 1, logical_height |-> 1, scale_factor |-> 4,
               monitor_x |-> 0, monitor_y |-> 0]
    /\ bbox = <<0, 0, 0, 0>>
    /\ cell_label = <<>>
    /\ cell_grid_n = 1
    /\ point = [none |-> TRUE]
    /\ cpc = "input"

\* no planner call has failed
RetryIdle ==
    /\ attempts = 0
    /\ transport_error = [none |-> TRUE]

\* the hook's component has not rendered yet
HookIdle ==
    /\ effects = <<>>
    /\ registered = {}
    /\ invoked = {}
    /\ emitted = 0

\* the engine when no task is ever started: Idle, under the default [safety]
EngineIdle ==
    /\ EngineInit
    /\ require_approval_for = {"execute_terminal"}
    /\ max_consecutive_failures = 2
    /\ max_duration = 0

\* every component at rest, under the default [safety]
AllIdle ==
    EngineIdle /\ LabelsIdle /\ TurnIdle /\ ExecIdle /\ StabIdle /\ UiIdle /\ RetryIdle /\ CoordIdle
        /\ HookIdle

Init ==
    EngineInit /\ LabelsIdle /\ TurnIdle /\ ExecIdle /\ StabIdle /\ UiIdle /\ RetryIdle /\ CoordIdle
        /\ HookIdle

\* a step of the engine and its command surface: nothing else changes
Engine(A) == A /\ UNCHANGED sideVars

\* ---------------------------------------------------------------- helpers
requires_approval_never(type) == FALSE

requires_approval_skipsAllowed(type) ==
    type \in require_approval_for /\ type \notin permanentlyAllowed

\* Safety Gate: pure function of the configured action-type set
requires_approval(type) == type \in require_approval_for

\* action kinds after which the engine waits for the screen to settle
StabilityKinds ==
    {"mouse_click", "mouse_double_click", "mouse_right_click", "type_text",
     "hotkey", "key_press", "scroll"}

needs_stability(type) == type \in StabilityKinds

\* consecutive-failure counter after one ActionResult
NextFailures(ok, n) == IF ok THEN 0 ELSE n + 1

FailureLimitReached_offByOne(n) == n > max_consecutive_failures

\* failure-count stop: the counter has reached the configured threshold
FailureLimitReached(n) == n >= max_consecutive_failures

TimedOut_ignoresZero == elapsed >= max_duration

\* timed stop: max_loop_duration = 0 means no limit
TimedOut == max_duration # 0 /\ elapsed >= max_duration

CanProceed_ignoresStop == phase = "boundary" /\ ~TimedOut

\* top of run_loop: the arm is entered only if neither stop() nor the
\* duration limit ends the run at this transition boundary
CanProceed == phase = "boundary" /\ ~stop_flag /\ ~TimedOut

RunIsActive_never == FALSE

\* start_task's test for "a run is already active"
RunIsActive == Active

TurnOutcome_finishIsAction(tool) ==
    IF tool = "report_failure" THEN "Error" ELSE "act"

\* implicit evaluation: what a completed planner turn means for the run
TurnOutcome(tool) ==
    IF tool = "finish_task" THEN "Done"
    ELSE IF tool = "report_failure" THEN "Error"
    ELSE "act"

UserDecisionState_alwaysExecutes(ev) == "Executing"

\* WaitingForUser arm: the state a received approval event leads to
UserDecisionState(ev) ==
    IF ev = "UserApproved" THEN "Executing" ELSE "Idle"

AdvanceToNextStep_staysExecuting == "Executing"

AdvanceToNextStep_toError == "Error"

\* advance_to_next_step: the step is over, re-enter Planning
AdvanceToNextStep == "Planning"

\* state after a completed action that did not end the run
AfterExecState(type, ok) ==
    IF needs_stability(type) /\ ok THEN "WaitingForStability"
    ELSE AdvanceToNextStep

\* the run ends in state s
EndRun(s, msg) ==
    /\ state' = s
    /\ action' = NoAction
    /\ phase' = "boundary"
    /\ message' = msg
    /\ activeRuns' = activeRuns - 1

\* ids of the actions handed to the Executor in this run
Dispatched ==
    {history[i].id : i \in 1..Len(history)}
        \cup (IF state = "Executing" /\ phase = "busy" THEN {action.id} ELSE {})

\* ------------------------------------------------------- command surface
\* start_task while no run is active: the Idle arm receives GoalReceived
\* (every event queued ahead of it was received and dropped by that arm)
StartTaskOk ==
    /\ ~RunIsActive
    /\ state' = "Planning"
    /\ action' = NoAction
    /\ phase' = "boundary"
    /\ message' = "none"
    /\ stop_flag' = FALSE
    /\ event_rx' = <<>>
    /\ failures' = 0
    /\ loopCount' = 0
    /\ elapsed' = 0
    /\ history' = <<>>
    /\ chunks' = 0
    /\ startResult' = "ok"
    /\ startSeq' = 1 - startSeq
    /\ activeRuns' = activeRuns + 1
    /\ awaited' = {}
    /\ rejected' = 0
    /\ stopAt' = <<>>
    /\ firstTurn' = "none"
    /\ executions' = 0
    /\ UNCHANGED configVars

\* start_task while a run is active: a caller error, nothing else happens
StartTaskBusy ==
    /\ RunIsActive
    /\ startResult' = "err"
    /\ startSeq' = 1 - startSeq
    /\ UNCHANGED <<engineVars, configVars, ghostVars, activeRuns>>

\* stop_task: cooperative cancellation, only sets the flag
StopTask ==
    /\ ~stop_flag
    /\ stop_flag' = TRUE
    /\ stopAt' = IF Active /\ stopAt = <<>>
                  THEN <<state, phase, event_rx = <<>>>>
                  ELSE stopAt
    /\ UNCHANGED <<state, action, phase, message, event_rx, failures, loopCount,
                   elapsed, history, chunks, configVars, startResult, startSeq,
                   activeRuns, awaited, rejected, firstTurn, executions>>

\* confirm_action { approved }: the command handler sends the event to the
\* engine through its mpsc::Sender, whatever the engine is doing
ConfirmAction(approved) ==
    /\ Len(event_rx) < MaxQueue
    /\ event_rx' = Append(event_rx,
            ChannelEvent(IF approved THEN "UserApproved" ELSE "UserRejected",
                         state = "WaitingForUser"))
    /\ UNCHANGED <<state, action, phase, message, stop_flag, failures, loopCount,
                   elapsed, history, chunks, configVars, startResult, startSeq,
                   activeRuns, ghostVars>>

\* wall-clock time passes while a run is active
Tick ==
    /\ Active
    /\ elapsed < MaxTime
    /\ elapsed' = elapsed + 1
    /\ UNCHANGED <<state, action, phase, message, stop_flag, event_rx, failures,
                   loopCount, history, chunks, configVars, startResult, startSeq,
                   activeRuns, ghostVars>>

\* ------------------------------------------------------------- run loop
\* Idle arm: recv() returns an event that is not GoalReceived; it is dropped
IdleRecv ==
    /\ state = "Idle"
    /\ event_rx # <<>>
    /\ event_rx' = Tail(event_rx)
    /\ UNCHANGED <<state, action, phase, message, stop_flag, failures, loopCount,
                   elapsed, history, chunks, configVars, startResult, startSeq,
                   activeRuns, ghostVars>>

\* stop() observed at a transition boundary
BoundaryStop ==
    /\ Active
    /\ phase = "boundary"
    /\ stop_flag
    /\ EndRun("Idle", "stopped")
    /\ UNCHANGED <<stop_flag, event_rx, failures, loopCount, elapsed, history,
                   chunks, configVars, startResult, startSeq, ghostVars>>

\* duration limit observed at a transition boundary
BoundaryTimeout ==
    /\ Active
    /\ phase = "boundary"
    /\ ~stop_flag
    /\ TimedOut
    /\ EndRun("Error", "max_duration")
    /\ UNCHANGED <<stop_flag, event_rx, failures, loopCount, elapsed, history,
                   chunks, configVars, startResult, startSeq, ghostVars>>

\* Planning: the screen cannot be captured (CaptureError), fatal for the run
CaptureFail ==
    /\ state = "Planning"
    /\ CanProceed
    /\ EndRun("Error", "capture")
    /\ UNCHANGED <<stop_flag, event_rx, failures, loopCount, elapsed, history,
                   chunks, configVars, startResult, startSeq, ghostVars>>

\* Planning: perception captured, context assembled, stream_chat called
PlanBegin ==
    /\ state = "Planning"
    /\ CanProceed
    /\ loopCount < MaxCycles
    /\ loopCount' = loopCount + 1
    /\ phase' = "busy"
    /\ chunks' = 0
    /\ UNCHANGED <<state, action, message, stop_flag, event_rx, failures, elapsed,
                   history, configVars, startResult, startSeq, activeRuns,
                   ghostVars>>

\* stream_chat: one more SSE line arrives and is emitted as llm_stream_chunk;
\* the loop reads no stop flag
StreamChunk ==
    /\ state = "Planning"
    /\ phase = "busy"
    /\ chunks < MaxChunks
    /\ chunks' = chunks + 1
    /\ UNCHANGED <<state, action, phase, message, stop_flag, event_rx, failures,
                   loopCount, elapsed, history, configVars, startResult, startSeq,
                   activeRuns, ghostVars>>

\* stream_chat returns ("data: [DONE]" or end of stream) and the turn's tool
\* call is handled
PlanTurn(tool) ==
    /\ state = "Planning"
    /\ phase = "busy"
    /\ firstTurn' = IF loopCount = 1 THEN tool ELSE firstTurn
    /\ chunks' = 0
    /\ CASE TurnOutcome(tool) = "Done" ->
              /\ EndRun("Done", "finished")
              /\ UNCHANGED <<awaited, executions>>
         [] TurnOutcome(tool) = "Error" ->
              /\ EndRun("Error", "report_failure")
              /\ UNCHANGED <<awaited, executions>>
         [] OTHER ->
              /\ action' = [type |-> tool, id |-> loopCount]
              /\ phase' = "boundary"
              /\ IF requires_approval(tool)
                 THEN /\ state' = "WaitingForUser"
                      /\ awaited' = awaited \cup {loopCount}
                      /\ UNCHANGED executions
                 ELSE /\ state' = "Executing"
                      /\ executions' = executions + 1
                      /\ UNCHANGED awaited
              /\ UNCHANGED <<message, activeRuns>>
    /\ UNCHANGED <<stop_flag, event_rx, failures, loopCount, elapsed, history,
                   configVars, startResult, startSeq, rejected, stopAt>>

\* Executing: the action is handed to the Executor
ExecBegin ==
    /\ state = "Executing"
    /\ CanProceed
    /\ phase' = "busy"
    /\ UNCHANGED <<state, action, message, stop_flag, event_rx, failures, loopCount,
                   elapsed, history, chunks, configVars, startResult, startSeq,
                   activeRuns, ghostVars>>

\* Executing: the Executor returns its ActionResult
ExecComplete(ok) ==
    /\ state = "Executing"
    /\ phase = "busy"
    /\ history' = Append(history, [id |-> action.id, success |-> ok])
    /\ failures' = NextFailures(ok, failures)
    /\ IF FailureLimitReached(failures')
       THEN EndRun("Error", "max_consecutive_failures")
       ELSE /\ state' = AfterExecState(action.type, ok)
            /\ action' = IF state' = "WaitingForStability" THEN action ELSE NoAction
            /\ phase' = "boundary"
            /\ UNCHANGED <<message, activeRuns>>
    /\ UNCHANGED <<stop_flag, event_rx, loopCount, elapsed, chunks, configVars,
                   startResult, startSeq, ghostVars>>

\* WaitingForStability: wait_for_visual_stability is called
StabilityBegin ==
    /\ state = "WaitingForStability"
    /\ CanProceed
    /\ phase' = "busy"
    /\ UNCHANGED <<state, action, message, stop_flag, event_rx, failures, loopCount,
                   elapsed, history, chunks, configVars, startResult, startSeq,
                   activeRuns, ghostVars>>

\* WaitingForStability: the wait returns Ok(true), Ok(false) or Err; every arm
\* calls advance_to_next_step
StabilityReturn ==
    /\ state = "WaitingForStability"
    /\ phase = "busy"
    /\ state' = AdvanceToNextStep
    /\ action' = NoAction
    /\ phase' = "boundary"
    /\ UNCHANGED <<message, stop_flag, event_rx, failures, loopCount, elapsed,
                   history, chunks, configVars, startResult, startSeq, activeRuns,
                   ghostVars>>

\* WaitingForUser: the arm blocks in event_rx.recv().await
WaitBegin ==
    /\ state = "WaitingForUser"
    /\ CanProceed
    /\ phase' = "busy"
    /\ UNCHANGED <<state, action, message, stop_flag, event_rx, failures, loopCount,
                   elapsed, history, chunks, configVars, startResult, startSeq,
                   activeRuns, ghostVars>>

\* WaitingForUser: recv() returns UserApproved
RecvApproved ==
    /\ state = "WaitingForUser"
    /\ phase = "busy"
    /\ event_rx # <<>>
    /\ Head(event_rx).kind = "UserApproved"
    /\ event_rx' = Tail(event_rx)
    /\ state' = UserDecisionState("UserApproved")
    /\ phase' = "boundary"
    /\ executions' = executions + 1
    /\ UNCHANGED <<action, message, stop_flag, failures, loopCount, elapsed,
                   history, chunks, configVars, startResult, startSeq, activeRuns,
                   awaited, rejected, stopAt, firstTurn>>

\* WaitingForUser: recv() returns UserRejected
RecvRejected ==
    /\ state = "WaitingForUser"
    /\ phase = "busy"
    /\ event_rx # <<>>
    /\ Head(event_rx).kind = "UserRejected"
    /\ event_rx' = Tail(event_rx)
    /\ rejected' = action.id
    /\ IF UserDecisionState("UserRejected") = "Idle"
       THEN /\ EndRun("Idle", "rejected")
            /\ UNCHANGED executions
       ELSE /\ state' = UserDecisionState("UserRejected")
            /\ phase' = "boundary"
            /\ executions' = executions + 1
            /\ UNCHANGED <<action, message, activeRuns>>
    /\ UNCHANGED <<stop_flag, failures, loopCount, elapsed, history, chunks,
                   configVars, startResult, startSeq, awaited, stopAt, firstTurn>>

Next ==
    \/ Engine(StartTaskOk)
    \/ Engine(StartTaskBusy)
    \/ Engine(StopTask)
    \/ \E approved \in BOOLEAN : Engine(ConfirmAction(approved))
    \/ Engine(Tick)
    \/ Engine(IdleRecv)
    \/ Engine(BoundaryStop)
    \/ Engine(BoundaryTimeout)
    \/ Engine(CaptureFail)
    \/ Engine(PlanBegin)
    \/ Engine(StreamChunk)
    \/ \E tool \in PlannerTools : Engine(PlanTurn(tool))
    \/ Engine(ExecBegin)
    \/ \E ok \in BOOLEAN : Engine(ExecComplete(ok))
    \/ Engine(StabilityBegin)
    \/ Engine(StabilityReturn)
    \/ Engine(WaitBegin)
    \/ Engine(RecvApproved)
    \/ Engine(RecvRejected)

Spec == Init /\ [][Next]_vars

\* What the scheduling guarantees: the engine task is always scheduled again
\* (tokio), the Executor's calls are synchronous and return, and the stability
\* wait is cut off by max_wait_ms.  Nothing bounds the planner's stream: the
\* reqwest Client is built without a timeout and stream_chat awaits the next
\* bytes of the response for as long as the server keeps the connection open.
EngineFairness ==
    /\ WF_vars(Engine(BoundaryStop))
    /\ WF_vars(Engine(BoundaryTimeout))
    /\ WF_vars(Engine(PlanBegin))
    /\ WF_vars(Engine(ExecBegin))
    /\ WF_vars(Engine(\E ok \in BOOLEAN : ExecComplete(ok)))
    /\ WF_vars(Engine(StabilityBegin))
    /\ WF_vars(Engine(StabilityReturn))
    /\ WF_vars(Engine(WaitBegin))
    /\ WF_vars(Engine(RecvApproved))
    /\ WF_vars(Engine(RecvRejected))

LiveSpec == Init /\ [][Next]_vars /\ EngineFairness

TypeOK ==
    /\ state \in AgentStates
    /\ phase \in {"boundary", "busy"}
    /\ stop_flag \in BOOLEAN
    /\ failures \in 0..(MaxCycles + 1)
    /\ loopCount \in 0..MaxCycles
    /\ elapsed \in 0..MaxTime
    /\ chunks \in 0..MaxChunks
    /\ Len(event_rx) <= MaxQueue
    /\ Len(history) <= MaxCycles

\* ===================================================== SoM grid labels
\* characters are their ASCII codes; Option<T> is None or Some(v)
None == [none |-> TRUE]

Some(v) == [some |-> v]

is_ascii_alphabetic(ch) == ch \in 65..90 \/ ch \in 97..122

is_ascii_digit(ch) == ch \in 48..57

to_uppercase(ch) == IF ch \in 97..122 THEN ch - 32 ELSE ch

\* draw_som_grid's col_label closure: one letter below 26, otherwise "A" and
\* the character (b'A' + (c - 26) as u8)
col_label(c) ==
    IF c < 26 THEN <<65 + c>> ELSE <<65, 65 + ((c - 26) % 256)>>

\* decimal digits of n, as format!("{}", n) writes them
RECURSIVE DecimalDigits(_)
DecimalDigits(n) ==
    IF n < 10 THEN <<48 + n>> ELSE Append(DecimalDigits(n \div 10), 48 + (n % 10))

\* the label drawn into cell (col, row): format!("{}{}", col_label(col), row + 1)
format_label(c, r) == col_label(c) \o DecimalDigits(r + 1)

\* chars().take_while(pred) and chars().skip_while(pred) for pred = is_ascii_alphabetic
RECURSIVE take_while_alphabetic(_)
take_while_alphabetic(str) ==
    IF str = <<>> \/ ~is_ascii_alphabetic(Head(str)) THEN <<>>
    ELSE <<Head(str)>> \o take_while_alphabetic(Tail(str))

RECURSIVE skip_while_alphabetic(_)
skip_while_alphabetic(str) ==
    IF str = <<>> \/ ~is_ascii_alphabetic(Head(str)) THEN str
    ELSE skip_while_alphabetic(Tail(str))

\* str.parse::<u32>(): an optional '+' and at least one digit, nothing else
\* (every number of up to 9 digits fits a u32; longer ones do not occur here)
RECURSIVE DigitsValue(_)
DigitsValue(str) ==
    IF str = <<>> THEN 0
    ELSE 10 * DigitsValue(SubSeq(str, 1, Len(str) - 1)) + (str[Len(str)] - 48)

parse_u32(str) ==
    LET digits == IF str # <<>> /\ Head(str) = 43 THEN Tail(str) ELSE str
    IN  IF digits # <<>> /\ (\A i \in 1..Len(digits) : is_ascii_digit(digits[i]))
           /\ Len(digits) <= 9
        THEN Some(DigitsValue(digits))
        ELSE None

\* parse_grid_label: "C4" -> GridCoord { col: 2, row: 3 }, or None
parse_grid_label(str) ==
    LET upper   == [i \in 1..Len(str) |-> to_uppercase(str[i])]
        col_str == take_while_alphabetic(upper)
        row_str == skip_while_alphabetic(upper)
        colv    == IF Len(col_str) = 1
                   THEN (IF col_str[1] >= 65 THEN Some(col_str[1] - 65) ELSE None)
                   ELSE (IF Len(col_str) >= 2 THEN Some(26 + (col_str[2] - 65)) ELSE None)
        parsed  == parse_u32(row_str)
        rowv    == IF parsed = None \/ parsed = Some(0)
                   THEN None
                   ELSE Some(parsed.some - 1)
    IN  IF colv = None \/ rowv = None THEN None
        ELSE Some([col |-> colv.some, row |-> rowv.some])

\* a grid of some size is about to be drawn and one of its cells is looked at
LabelsInit ==
    /\ grid_n \in 1..MaxGridN
    /\ cell \in (0..(grid_n - 1)) \X (0..(grid_n - 1))
    /\ label = <<>>
    /\ coord = None
    /\ lpc = "cell"

\* draw_som_grid labels the cell
DrawLabel ==
    /\ lpc = "cell"
    /\ label' = format_label(cell[1], cell[2])
    /\ lpc' = "drawn"
    /\ UNCHANGED <<grid_n, cell, coord>>

\* the label the model read off the grid is parsed back
ParseLabel ==
    /\ lpc = "drawn"
    /\ coord' = parse_grid_label(label)
    /\ lpc' = "parsed"
    /\ UNCHANGED <<grid_n, cell, label>>

LabelNext ==
    \/ DrawLabel /\ UNCHANGED offLabel
    \/ ParseLabel /\ UNCHANGED offLabel

\* a grid of any size up to MaxGridN, any cell of it
LabelSpecInit ==
    EngineIdle /\ LabelsInit /\ TurnIdle /\ ExecIdle /\ StabIdle /\ UiIdle /\ RetryIdle /\ CoordIdle
        /\ HookIdle

LabelSpec ==
    LabelSpecInit /\ [][LabelNext]_vars

\* ================================================== coordinate mapper
\* ScreenshotMeta values explored: 100 %, 125 %, 150 % and 200 % scaling,
\* monitors left of, at and right of the primary one
Metas ==
    [logical_width : {2, 3, 1093, 1920}, logical_height : {1, 3, 1080},
     scale_factor : {4, 5, 6, 8}, monitor_x : {-1920, 0, 1920},
     monitor_y : {-1080, 0}]

\* bboxes whose centre is (0,0), (1,1), (1/2,1/2), (1/2, 5/8), (1/8, 1/8)
BboxInputs ==
    {<<0, 0, 0, 0>>, <<4, 4, 4, 4>>, <<0, 0, 4, 4>>, <<1, 1, 3, 4>>, <<0, 0, 1, 1>>}

\* labels handed in: "A1", "b2", "C1", "Z9", "A0", "1A", "" and "AA1"
LabelInputs ==
    {<<65, 49>>, <<98, 50>>, <<67, 49>>, <<90, 57>>, <<65, 48>>, <<49, 65>>,
     <<>>, <<65, 65, 49>>}

GridSizes == {1, 2, 3}

round_truncates(num, den) == num \div den

\* f64::round of num / den for num >= 0: half away from zero
round(num, den) == (2 * num + den) \div (2 * den)

\* bbox_to_physical: centre of the bbox, times the logical size, times the
\* scale factor, rounded, plus the monitor origin
bbox_to_physical(b, m) ==
    LET cx_num == (b[1] + b[3]) * m.logical_width * m.scale_factor
        cy_num == (b[2] + b[4]) * m.logical_height * m.scale_factor
        den    == 2 * 4 * 4      \* the mean of two quarters, times quarters
    IN  [x |-> m.monitor_x + round(cx_num, den),
         y |-> m.monitor_y + round(cy_num, den)]

\* grid_to_pixel: centre of the cell, as fractions cx / den and cy / den
grid_to_pixel(c, img_w, img_h, n) ==
    [cx |-> (2 * c.col + 1) * img_w, cy |-> (2 * c.row + 1) * img_h, den |-> 2 * n]

\* grid_cell_to_physical
grid_cell_to_physical(str, m, n) ==
    LET parsed == parse_grid_label(str)
    IN  IF parsed = None THEN None
        ELSE LET px == grid_to_pixel(parsed.some, m.logical_width, m.logical_height, n)
             IN  Some([x |-> m.monitor_x + round(px.cx * m.scale_factor, px.den * 4),
                       y |-> m.monitor_y + round(px.cy * m.scale_factor, px.den * 4)])

\* a capture, an element bbox and a grid label are at hand
CoordInit ==
    /\ meta \in Metas
    /\ bbox \in BboxInputs
    /\ cell_label \in LabelInputs
    /\ cell_grid_n \in GridSizes
    /\ point = None
    /\ cpc = "input"

\* the Executor resolves the element's bbox
MapBbox ==
    /\ cpc = "input"
    /\ point' = Some(bbox_to_physical(bbox, meta))
    /\ cpc' = "bbox"
    /\ UNCHANGED <<meta, bbox, cell_label, cell_grid_n>>

\* grid fallback: the Executor resolves the label the model named
MapGridCell ==
    /\ cpc = "input"
    /\ point' = grid_cell_to_physical(cell_label, meta, cell_grid_n)
    /\ cpc' = "grid"
    /\ UNCHANGED <<meta, bbox, cell_label, cell_grid_n>>

CoordNext ==
    \/ MapBbox /\ UNCHANGED offCoord
    \/ MapGridCell /\ UNCHANGED offCoord

CoordSpecInit ==
    EngineIdle /\ LabelsIdle /\ TurnIdle /\ ExecIdle /\ StabIdle /\ UiIdle /\ RetryIdle
        /\ CoordInit /\ HookIdle

CoordSpec ==
    CoordSpecInit /\ [][CoordNext]_vars

\* ================================================== one planner turn (SSE)
\* the tool-call deltas a provider can put into one SSE line
ToolCallDeltas ==
    [index : 0..1, name : {"mouse_click", "finish_task"}]

RECURSIVE SeqsUpTo(_, _)
SeqsUpTo(S, n) ==
    IF n = 0 THEN {<<>>}
    ELSE LET shorter == SeqsUpTo(S, n - 1)
         IN  shorter \cup {Append(q, x) : q \in shorter, x \in S}

\* delta.tool_calls: absent, or an array of up to MaxCalls entries
DeltaToolCalls ==
    {None} \cup {Some(calls) : calls \in SeqsUpTo(ToolCallDeltas, MaxCalls)}

NoChunk == [tool_call_index |-> None, tool_call_name |-> None]

parse_sse_line_lastCall(calls) ==
    IF calls # None /\ calls.some # <<>>
    THEN [tool_call_index |-> Some(calls.some[Len(calls.some)].index),
          tool_call_name  |-> Some(calls.some[Len(calls.some)].name)]
    ELSE NoChunk

\* parse_sse_line: the chunk carries calls.first(), if there is one
parse_sse_line(calls) ==
    IF calls # None /\ calls.some # <<>>
    THEN [tool_call_index |-> Some(calls.some[1].index),
          tool_call_name  |-> Some(calls.some[1].name)]
    ELSE NoChunk

\* the action extracted from the turn: the first tool call a chunk carried
HonorFirst(sofar, chunk) ==
    IF sofar = None THEN chunk.tool_call_name ELSE sofar

\* stream_chat reads one "data: {...}" line, parses it and emits the chunk
SseLine(calls) ==
    /\ tpc = "streaming"
    /\ linesSeen < MaxLines
    /\ sse_calls' = calls
    /\ chunk_out' = parse_sse_line(calls)
    /\ honored' = HonorFirst(honored, chunk_out')
    /\ attempted' = attempted \o
            (IF calls = None THEN <<>>
             ELSE [i \in 1..Len(calls.some) |-> calls.some[i].name])
    /\ linesSeen' = linesSeen + 1
    /\ UNCHANGED tpc

\* stream_chat reads "data: [DONE]": the done chunk is emitted, the turn is complete
SseDone ==
    /\ tpc = "streaming"
    /\ tpc' = "done"
    /\ sse_calls' = None
    /\ chunk_out' = NoChunk
    /\ UNCHANGED <<honored, attempted, linesSeen>>

TurnNext ==
    \/ \E calls \in DeltaToolCalls : SseLine(calls) /\ UNCHANGED offTurn
    \/ SseDone /\ UNCHANGED offTurn

TurnSpec ==
    AllIdle /\ [][TurnNext]_vars

\* ======================================================= Executor call
ElementIds == {"e1", "e2"}

Ok == [kind |-> "Ok"]

Err(e) == [kind |-> "Err", error |-> e]

Panic == [kind |-> "panic"]

execute_click_unwraps(id, els, moved, pressed) ==
    IF id \notin els THEN Err("element id not found")
    ELSE IF ~moved THEN Panic
    ELSE IF ~pressed THEN Panic
    ELSE Ok

\* Executor::execute_click: every failure is mapped into Err(ExecutorError)
execute_click(id, els, moved, pressed) ==
    IF id \notin els THEN Err("element id not found")
    ELSE IF ~moved THEN Err("move_mouse failed")
    ELSE IF ~pressed THEN Err("button failed")
    ELSE Ok

\* execute(action, snapshot) -> ActionResult: the Err is captured in the result
ToActionResult(res) ==
    IF res.kind = "Ok" THEN [success |-> TRUE, error |-> None]
    ELSE [success |-> FALSE, error |-> Some(res.error)]

\* Executing: the engine calls the Executor with the action and the snapshot
\* of the same perception cycle; the device may or may not cooperate
ExecCall ==
    /\ state = "Executing"
    /\ phase = "busy"
    /\ epc = "idle"
    /\ elements' \in SUBSET ElementIds
    /\ element_id' \in ElementIds \cup {"e9"}
    /\ move_ok' \in BOOLEAN
    /\ button_ok' \in BOOLEAN
    /\ epc' = "called"
    /\ UNCHANGED <<exec_result, action_result>>

\* the Executor returns (a panic unwinds through the engine task instead)
ExecReturn ==
    /\ epc = "called"
    /\ exec_result' = execute_click(element_id, elements, move_ok, button_ok)
    /\ IF exec_result'.kind = "panic"
       THEN /\ epc' = "panicked"
            /\ UNCHANGED action_result
       ELSE /\ epc' = "returned"
            /\ action_result' = ToActionResult(exec_result')
    /\ UNCHANGED <<elements, element_id, move_ok, button_ok>>

\* the engine takes the ActionResult and goes on
ExecFold ==
    /\ epc = "returned"
    /\ ExecComplete(action_result.success)
    /\ epc' = "idle"
    /\ UNCHANGED <<elements, element_id, move_ok, button_ok, exec_result,
                   action_result>>

ExecNext ==
    \/ StartTaskOk /\ UNCHANGED <<execVars, offExec>>
    \/ PlanBegin /\ UNCHANGED <<execVars, offExec>>
    \/ \E tool \in {"mouse_click", "finish_task"} :
            PlanTurn(tool) /\ UNCHANGED <<execVars, offExec>>
    \/ ExecBegin /\ UNCHANGED <<execVars, offExec>>
    \/ ExecCall /\ UNCHANGED <<coreVars, offExec>>
    \/ ExecReturn /\ UNCHANGED <<coreVars, offExec>>
    \/ ExecFold /\ UNCHANGED offExec
    \/ StabilityBegin /\ UNCHANGED <<execVars, offExec>>
    \/ StabilityReturn /\ UNCHANGED <<execVars, offExec>>

ExecSpec ==
    AllIdle /\ [][ExecNext]_vars

\* =============================================== visual stability wait
\* StabilityConfig the WaitingForStability arm passes
max_wait_ms == 3000

check_interval_ms == 200

\* stability_threshold 0.02, in thousandths of the frame
stability_threshold == 20

min_stable_frames == 2

\* frame differences a capture can show: below, at and above the threshold
DiffValues == {10, 20, 30}

WaitExpired_late(t) == t > max_wait_ms + check_interval_ms

\* max_wait_ms: the longest the call waits
WaitExpired(t) == t >= max_wait_ms

FrameIsStable_atThreshold(diff) == diff <= stability_threshold

\* stability_threshold: a frame is stable when its difference is below it
FrameIsStable(diff) == diff < stability_threshold

\* min_stable_frames: consecutive stable frames needed
StableRunReached(count) == count >= min_stable_frames

Remember(window, diff) ==
    IF Len(window) < MaxWindow THEN Append(window, diff)
    ELSE Append(Tail(window), diff)

\* SeeClawResult<bool>: Ok(true), Ok(false)
OkBool(b) == [kind |-> "Ok", value |-> b]

StabReturn(result) ==
    /\ stab_result' = result
    /\ spc' = "returned"

\* the WaitingForStability arm calls wait_for_visual_stability
StabStart ==
    /\ spc = "idle"
    /\ spc' = "waiting"
    /\ UNCHANGED <<waited_ms, has_last_frame, stable_frame_count, cancel,
                   stab_result, recent>>

\* stop_task sets the flag the call was handed
StabCancel ==
    /\ spc = "waiting"
    /\ ~cancel
    /\ cancel' = TRUE
    /\ UNCHANGED <<waited_ms, has_last_frame, stable_frame_count, stab_result,
                   recent, spc>>

\* one round of the wait: give up on cancellation or timeout, otherwise
\* capture a frame, compare it with the previous one, count the stable run,
\* and either report stability or sleep for check_interval_ms
StabStep ==
    /\ spc = "waiting"
    /\ IF cancel \/ WaitExpired(waited_ms)
       THEN /\ StabReturn(OkBool(FALSE))
            /\ UNCHANGED <<waited_ms, has_last_frame, stable_frame_count, recent>>
       ELSE \/ /\ StabReturn(Err("capture failed"))          \* capture_frame failed
               /\ UNCHANGED <<waited_ms, has_last_frame, stable_frame_count, recent>>
            \/ /\ ~has_last_frame            \* first frame: nothing to compare
               /\ has_last_frame' = TRUE
               /\ waited_ms' = waited_ms + check_interval_ms
               /\ UNCHANGED <<stable_frame_count, recent, stab_result, spc>>
            \/ /\ has_last_frame
               /\ \E diff \in DiffValues :
                    /\ recent' = Remember(recent, diff)
                    /\ stable_frame_count' =
                          IF FrameIsStable(diff) THEN stable_frame_count + 1 ELSE 0
                    /\ IF StableRunReached(stable_frame_count')
                       THEN /\ StabReturn(OkBool(TRUE))
                            /\ UNCHANGED waited_ms
                       ELSE /\ waited_ms' = waited_ms + check_interval_ms
                            /\ UNCHANGED <<stab_result, spc>>
               /\ UNCHANGED has_last_frame
    /\ UNCHANGED cancel

StabNext ==
    \/ StabStart /\ UNCHANGED offStab
    \/ StabCancel /\ UNCHANGED offStab
    \/ StabStep /\ UNCHANGED offStab

\* every round of the wait ends: the sleep and the capture both return
StabSpec ==
    /\ AllIdle
    /\ [][StabNext]_vars
    /\ WF_vars(StabStep /\ UNCHANGED offStab)

\* ------------------------------------- the engine's WaitingForStability arm
\* the arm calls wait_for_visual_stability with a fresh detector
StabilityCall ==
    /\ StabilityBegin
    /\ waited_ms' = 0
    /\ has_last_frame' = FALSE
    /\ stable_frame_count' = 0
    /\ cancel' = stop_flag
    /\ stab_result' = None
    /\ recent' = <<>>
    /\ spc' = "waiting"

\* stop_task while the wait is running: the wait reads the same flag
StabilityStop ==
    /\ StopTask
    /\ StabCancel

\* the match on the wait's result: every arm calls advance_to_next_step
StabilityFold ==
    /\ spc = "returned"
    /\ StabilityReturn
    /\ spc' = "idle"
    /\ UNCHANGED <<waited_ms, has_last_frame, stable_frame_count, cancel,
                   stab_result, recent>>

WaitNext ==
    \/ StartTaskOk /\ UNCHANGED <<stabVars, offWait>>
    \/ PlanBegin /\ UNCHANGED <<stabVars, offWait>>
    \/ PlanTurn("mouse_click") /\ UNCHANGED <<stabVars, offWait>>
    \/ ExecBegin /\ UNCHANGED <<stabVars, offWait>>
    \/ (\E ok \in BOOLEAN : ExecComplete(ok)) /\ UNCHANGED <<stabVars, offWait>>
    \/ StabilityCall /\ UNCHANGED offWait
    \/ StabilityStop /\ UNCHANGED offWait
    \/ StabStep /\ UNCHANGED offStab
    \/ StabilityFold /\ UNCHANGED offWait
    \/ BoundaryStop /\ UNCHANGED <<stabVars, offWait>>

WaitSpec ==
    AllIdle /\ [][WaitNext]_vars

\* ------------------------------------ transport failures of the planner
\* retries of a failed planner call within one Planning cycle
max_planner_retries == 2

\* what a failed stream_chat call returns: the request could not be sent or
\* the byte stream broke (NetworkError), or the status was no success
TransportErrors == {"NetworkError", "LlmApiError"}

RetriesLeft_always(n) == TRUE

\* the call is made again while retries are left
RetriesLeft(n) == n < max_planner_retries

\* Planning: a new cycle starts with no failed call
PlanBeginFresh ==
    /\ PlanBegin
    /\ attempts' = 0
    /\ transport_error' = None

\* stream_chat returns Err: the call is retried, or the cycle has failed
PlanTransportFail(e) ==
    /\ state = "Planning"
    /\ phase = "busy"
    /\ transport_error' = Some(e)
    /\ IF RetriesLeft(attempts)
       THEN /\ attempts' = attempts + 1
            /\ chunks' = 0
            /\ UNCHANGED <<state, action, phase, message, failures, activeRuns>>
       ELSE /\ failures' = NextFailures(FALSE, failures)
            /\ chunks' = 0
            /\ UNCHANGED attempts
            /\ IF FailureLimitReached(failures')
               THEN EndRun("Error", "max_consecutive_failures")
               ELSE /\ phase' = "boundary"
                    /\ UNCHANGED <<state, action, message, activeRuns>>
    /\ UNCHANGED <<stop_flag, event_rx, loopCount, elapsed, history, configVars,
                   startResult, startSeq, ghostVars>>

RetryNext ==
    \/ StartTaskOk /\ UNCHANGED <<retryVars, offRetry>>
    \/ PlanBeginFresh /\ UNCHANGED offRetry
    \/ StreamChunk /\ UNCHANGED <<retryVars, offRetry>>
    \/ (\E e \in TransportErrors : PlanTransportFail(e)) /\ UNCHANGED offRetry
    \/ (\E tool \in {"wait", "finish_task"} : PlanTurn(tool))
            /\ UNCHANGED <<retryVars, offRetry>>
    \/ ExecBegin /\ UNCHANGED <<retryVars, offRetry>>
    \/ (\E ok \in BOOLEAN : ExecComplete(ok)) /\ UNCHANGED <<retryVars, offRetry>>

RetrySpec ==
    AllIdle /\ [][RetryNext]_vars

\* ======================================================== chat window
\* state_label: the string emitted for a state
state_label(s) ==
    CASE s = "Idle" -> "idle"
      [] s = "Planning" -> "planning"
      [] s = "Executing" -> "executing"
      [] s = "WaitingForStability" -> "waiting_for_stability"
      [] s = "WaitingForUser" -> "waiting_for_user"
      [] s = "Error" -> "error"
      [] s = "Done" -> "done"

\* payloads of agent_state_changed, llm_stream_chunk and action_required;
\* "turn" and "n" identify a chunk: the n-th chunk of the turn-th planner turn
StateEv(s) == [ev |-> "agent_state_changed", state |-> state_label(s)]

ChunkEv(kind, turn, n) ==
    [ev |-> "llm_stream_chunk", kind |-> kind, turn |-> turn, n |-> n]

ApprovalRequest(act) == [ev |-> "action_required", type |-> act.type, id |-> act.id]

\* kinds of a chunk that carries text
TextKinds == {"reasoning", "content"}

\* AgentStore.isRunning
isRunning == ui_state \notin {"idle", "error", "done"}

\* the texts of one kind among the chunks of a turn, in order
RECURSIVE TextOf(_, _)
TextOf(chs, kind) ==
    IF chs = <<>> THEN <<>>
    ELSE (IF Head(chs).kind = kind THEN <<Head(chs).n>> ELSE <<>>)
            \o TextOf(Tail(chs), kind)

\* AgentStore.startAssistantMessage
startAssistantMessage(msgs) ==
    Append(msgs, [content |-> <<>>, reasoningContent |-> <<>>, isStreaming |-> TRUE])

\* AgentStore.setState: idle, done and error close the streaming message
setState(s, msgs, id) ==
    IF s \in {"idle", "done", "error"} /\ id # 0
    THEN [messages |-> [msgs EXCEPT ![id].isStreaming = FALSE],
          currentStreamingId |-> 0]
    ELSE [messages |-> msgs, currentStreamingId |-> id]

\* AgentStore.handleStreamChunk
handleStreamChunk(chunk, msgs, id) ==
    IF id = 0 \/ id > Len(msgs)
    THEN [messages |-> msgs, currentStreamingId |-> id]
    ELSE CASE chunk.kind = "reasoning" ->
                [messages |-> [msgs EXCEPT ![id].reasoningContent = Append(@, chunk.n)],
                 currentStreamingId |-> id]
           [] chunk.kind = "content" ->
                [messages |-> [msgs EXCEPT ![id].content = Append(@, chunk.n)],
                 currentStreamingId |-> id]
           [] chunk.kind \in {"done", "error"} ->
                [messages |-> [msgs EXCEPT ![id].isStreaming = FALSE],
                 currentStreamingId |-> 0]
           [] OTHER -> [messages |-> msgs, currentStreamingId |-> id]

\* the backend emits events; the window has not handled them yet
Emit(evs) ==
    /\ Len(ui_events) + Len(evs) <= MaxEvents
    /\ ui_events' = ui_events \o evs

\* the state the run loop emits if the step ended the run
EndLabel == IF state' \in TerminalStates THEN <<StateEv(state')>> ELSE <<>>

\* the window's stores are untouched by a backend step
UiUntouched ==
    UNCHANGED <<ui_state, messages, currentStreamingId, pendingApproval,
                permanentlyAllowed, ui_pending, tasks, doneSeen, autoConfirmed, decided>>

\* top of run_loop emits the state, then the arm is entered
EmitBegin(A) ==
    /\ A
    /\ Emit(<<StateEv(state)>>)
    /\ UiUntouched
    /\ UNCHANGED <<sent, offUi>>

\* a step that may end the run: the next loop top emits the end state
EmitEnd(A) ==
    /\ A
    /\ Emit(EndLabel)
    /\ UiUntouched
    /\ UNCHANGED <<sent, offUi>>

EmitPlanBegin ==
    /\ PlanBegin
    /\ Emit(<<StateEv("Planning")>>)
    /\ sent' = Append(sent, <<>>)
    /\ UiUntouched
    /\ UNCHANGED offUi

\* stream_chat emits each parsed line at once
EmitStreamChunk(kind) ==
    /\ StreamChunk
    /\ Emit(<<ChunkEv(kind, Len(sent), chunks')>>)
    /\ sent' = [sent EXCEPT ![Len(sent)] = Append(@, [kind |-> kind, n |-> chunks'])]
    /\ UiUntouched
    /\ UNCHANGED offUi

\* stream_chat returns: after "data: [DONE]" (a done chunk is emitted) or at
\* the end of the byte stream (none is)
EmitPlanTurn(tool, done) ==
    /\ PlanTurn(tool)
    /\ Emit((IF done THEN <<ChunkEv("done", Len(sent), 0)>> ELSE <<>>) \o EndLabel)
    /\ UiUntouched
    /\ UNCHANGED <<sent, offUi>>

\* WaitingForUser arm: action_required is emitted, then recv() is awaited
EmitWaitBegin ==
    /\ WaitBegin
    /\ Emit(<<StateEv("WaitingForUser"), ApprovalRequest(action)>>)
    /\ UiUntouched
    /\ UNCHANGED <<sent, offUi>>

\* InputBar.handleSubmit
UiSubmit ==
    /\ ~isRunning
    /\ ui_state' = "routing"
    /\ \/ /\ StartTaskOk
          /\ tasks < MaxTasks
          /\ tasks' = tasks + 1
          /\ UNCHANGED ui_pending
       \/ /\ StartTaskBusy
          /\ ui_pending["start_task"] < MaxClicks
          /\ ui_pending' = [ui_pending EXCEPT !["start_task"] = @ + 1]
          /\ UNCHANGED tasks
    /\ UNCHANGED <<messages, currentStreamingId, pendingApproval, permanentlyAllowed,
                   ui_events, sent, doneSeen, autoConfirmed, decided, offUi>>

\* handleSubmit's catch: start_task was rejected
UiSubmitFailed ==
    /\ ui_pending["start_task"] > 0
    /\ ui_pending' = [ui_pending EXCEPT !["start_task"] = @ - 1]
    /\ ui_state' = "error"
    /\ messages' = setState("error", messages, currentStreamingId).messages
    /\ currentStreamingId' = setState("error", messages, currentStreamingId).currentStreamingId
    /\ UNCHANGED <<pendingApproval, permanentlyAllowed, ui_events, tasks, sent, doneSeen, autoConfirmed, decided,
                   coreVars, offUi>>

\* InputBar.handleStop, up to the await
UiStop ==
    /\ isRunning
    /\ ui_pending["stop_task"] < MaxClicks
    /\ StopTask
    /\ ui_pending' = [ui_pending EXCEPT !["stop_task"] = @ + 1]
    /\ UNCHANGED <<ui_state, messages, currentStreamingId, pendingApproval,
                   permanentlyAllowed, ui_events, tasks, sent, doneSeen, autoConfirmed, decided, offUi>>

\* handleStop after the await: agentStore.setState('idle')
UiStopDone ==
    /\ ui_pending["stop_task"] > 0
    /\ ui_pending' = [ui_pending EXCEPT !["stop_task"] = @ - 1]
    /\ ui_state' = "idle"
    /\ messages' = setState("idle", messages, currentStreamingId).messages
    /\ currentStreamingId' = setState("idle", messages, currentStreamingId).currentStreamingId
    /\ UNCHANGED <<pendingApproval, permanentlyAllowed, ui_events, tasks, sent, doneSeen, autoConfirmed, decided,
                   coreVars, offUi>>

\* ApprovalCard.handleApprove / handleDeny, up to the await
UiDecide(approved) ==
    /\ pendingApproval # None
    /\ ui_pending["confirm_action"] < MaxClicks
    /\ ConfirmAction(approved)
    /\ ui_pending' = [ui_pending EXCEPT !["confirm_action"] = @ + 1]
    /\ UNCHANGED <<ui_state, messages, currentStreamingId, pendingApproval,
                   permanentlyAllowed, ui_events, tasks, sent, doneSeen, autoConfirmed, offUi>>
    /\ decided' = decided \cup {pendingApproval.some.id}

\* handleApprove / handleDeny after the await: setApprovalRequest(null)
UiDecideDone ==
    /\ ui_pending["confirm_action"] > 0
    /\ ui_pending' = [ui_pending EXCEPT !["confirm_action"] = @ - 1]
    /\ pendingApproval' = None
    /\ UNCHANGED <<ui_state, messages, currentStreamingId, permanentlyAllowed,
                   ui_events, tasks, sent, doneSeen, autoConfirmed, decided, coreVars, offUi>>

\* SettingsStore.addPermanentlyAllowed, for the type of the request shown
AddPermanentlyAllowed ==
    /\ pendingApproval # None
    /\ pendingApproval.some.type \notin permanentlyAllowed
    /\ permanentlyAllowed' = permanentlyAllowed \cup {pendingApproval.some.type}
    /\ UNCHANGED <<ui_state, messages, currentStreamingId, pendingApproval, ui_events,
                   ui_pending, tasks, sent, doneSeen, autoConfirmed, decided, coreVars, offUi>>

\* App.handleStateChange
UiStateChange ==
    /\ ui_events # <<>>
    /\ Head(ui_events).ev = "agent_state_changed"
    /\ ui_events' = Tail(ui_events)
    /\ LET s == Head(ui_events).state
           closed == setState(s, messages, currentStreamingId)
       IN  /\ ui_state' = s
           /\ IF s = "planning"
              THEN /\ messages' = startAssistantMessage(closed.messages)
                   /\ currentStreamingId' = Len(messages')
              ELSE /\ messages' = closed.messages
                   /\ currentStreamingId' = closed.currentStreamingId
    /\ UNCHANGED <<pendingApproval, permanentlyAllowed, ui_pending, tasks, sent,
                   doneSeen, autoConfirmed, decided, coreVars, offUi>>

\* App.handleStreamChunk
UiStreamChunk ==
    /\ ui_events # <<>>
    /\ Head(ui_events).ev = "llm_stream_chunk"
    /\ ui_events' = Tail(ui_events)
    /\ LET chunk == Head(ui_events)
           after == handleStreamChunk(chunk, messages, currentStreamingId)
       IN  /\ messages' = after.messages
           /\ currentStreamingId' = after.currentStreamingId
           /\ doneSeen' = IF chunk.kind = "done" THEN doneSeen \cup {chunk.turn}
                          ELSE doneSeen
    /\ UNCHANGED <<ui_state, pendingApproval, permanentlyAllowed, ui_pending, tasks,
                   sent, autoConfirmed, decided, coreVars, offUi>>

\* App.handleApprovalRequest
UiApprovalRequest ==
    /\ ui_events # <<>>
    /\ Head(ui_events).ev = "action_required"
    /\ ui_events' = Tail(ui_events)
    /\ LET req == Head(ui_events)
       IN  IF req.type \in permanentlyAllowed
           THEN /\ ConfirmAction(TRUE)
                /\ autoConfirmed' = autoConfirmed \cup {req.id}
                /\ UNCHANGED <<ui_state, pendingApproval>>
           ELSE /\ pendingApproval' = Some([type |-> req.type, id |-> req.id])
                /\ ui_state' = "waiting_for_user"
                /\ UNCHANGED <<coreVars, autoConfirmed>>
    /\ UNCHANGED <<messages, currentStreamingId, permanentlyAllowed, ui_pending, tasks,
                   sent, doneSeen, decided, offUi>>

\* tools of the streaming scenario: one ordinary action, one end of run
StreamTools == {"wait", "finish_task"}

\* a chat window streaming the planner's turns
StreamNext ==
    \/ UiSubmit
    \/ UiSubmitFailed
    \/ UiStop
    \/ UiStopDone
    \/ UiStateChange
    \/ UiStreamChunk
    \/ EmitEnd(BoundaryStop)
    \/ EmitPlanBegin
    \/ \E kind \in TextKinds : EmitStreamChunk(kind)
    \/ \E tool \in StreamTools, done \in BOOLEAN : EmitPlanTurn(tool, done)
    \/ EmitBegin(ExecBegin)
    \/ \E ok \in BOOLEAN : EmitEnd(ExecComplete(ok))

StreamSpec ==
    /\ AllIdle
    /\ [][StreamNext]_vars

\* tools of the approval scenario: one high-risk action, one end of run
ApprovalTools == {"execute_terminal", "finish_task"}

\* the first task of the session is submitted
UiSubmitFirst == tasks = 0 /\ UiSubmit

\* a chat window answering the engine's approval requests during one task
ApprovalNext ==
    \/ UiSubmitFirst
    \/ UiStop
    \/ UiStopDone
    \/ \E approved \in BOOLEAN : UiDecide(approved)
    \/ UiDecideDone
    \/ AddPermanentlyAllowed
    \/ UiStateChange
    \/ UiStreamChunk
    \/ UiApprovalRequest
    \/ EmitEnd(IdleRecv)
    \/ EmitEnd(BoundaryStop)
    \/ EmitPlanBegin
    \/ \E tool \in ApprovalTools : EmitPlanTurn(tool, TRUE)
    \/ EmitWaitBegin
    \/ EmitEnd(RecvApproved)
    \/ EmitEnd(RecvRejected)
    \/ EmitBegin(ExecBegin)
    \/ \E ok \in BOOLEAN : EmitEnd(ExecComplete(ok))

ApprovalSpec ==
    /\ AllIdle
    /\ [][ApprovalNext]_vars

\* ======================================================== useTauriEvent
offHook ==
    <<coreVars, labelVars, turnVars, execVars, stabVars, uiVars, retryVars, coordVars>>

\* an effect run when useEffect's callback returns: active, listen() called
NewEffect == [active |-> TRUE, unlisten |-> FALSE, promise |-> "called"]

\* then-callback: fn is called at once when the cleanup has already run
ThenUnlistens_never(e) == FALSE

ThenUnlistens(e) == ~e.active

\* the callback given to listen(): the handler runs only while active
CallbackInvokesHandler(e) == e.active

\* the component mounts, or re-renders with another handler, after the
\* cleanup of the previous run: the effect runs and calls listen()
HookMount ==
    /\ Len(effects) < MaxMounts
    /\ \A i \in DOMAIN effects : ~effects[i].active
    /\ effects' = Append(effects, NewEffect)
    /\ UNCHANGED <<registered, invoked, emitted>>

\* Tauri registers the callback of a listen() call
HookRegister ==
    \E i \in DOMAIN effects :
        /\ effects[i].promise = "called"
        /\ effects' = [effects EXCEPT ![i].promise = "registered"]
        /\ registered' = registered \cup {i}
        /\ UNCHANGED <<invoked, emitted>>

\* the listen() promise resolves and its then-callback runs with fn
HookResolve ==
    \E i \in DOMAIN effects :
        /\ effects[i].promise = "registered"
        /\ IF ThenUnlistens(effects[i])
             THEN /\ registered' = registered \ {i}
                  /\ effects' = [effects EXCEPT ![i].promise = "resolved"]
             ELSE /\ registered' = registered
                  /\ effects' = [effects EXCEPT ![i].promise = "resolved",
                                                ![i].unlisten = TRUE]
        /\ UNCHANGED <<invoked, emitted>>

\* the effect's cleanup: unmount, or the re-render that replaces the effect
HookCleanup ==
    \E i \in DOMAIN effects :
        /\ effects[i].active
        /\ effects' = [effects EXCEPT ![i].active = FALSE]
        /\ registered' = IF effects[i].unlisten THEN registered \ {i} ELSE registered
        /\ UNCHANGED <<invoked, emitted>>

\* the backend emits the event: every registered callback is called
HookEvent ==
    /\ emitted < MaxEmits
    /\ emitted' = emitted + 1
    /\ invoked' = {i \in registered : CallbackInvokesHandler(effects[i])}
    /\ UNCHANGED <<effects, registered>>

\* the IPC round trip of listen(): registration, then the promise resolves
HookSettle == (HookRegister \/ HookResolve) /\ UNCHANGED offHook

HookNext ==
    \/ HookMount /\ UNCHANGED offHook
    \/ HookRegister /\ UNCHANGED offHook
    \/ HookResolve /\ UNCHANGED offHook
    \/ HookCleanup /\ UNCHANGED offHook
    \/ HookEvent /\ UNCHANGED offHook

HookSpec ==
    AllIdle /\ [][HookNext]_vars /\ WF_vars(HookSettle)

\* ================================================================= claims
\* steps of the engine the claims speak about
Dispatches == state = "Executing" /\ phase = "boundary" /\ phase' = "busy"

EntersExecuting == state # "Executing" /\ state' = "Executing"

EngineMoves == state' # state \/ phase' # phase

DeadlinePassed == max_duration # 0 /\ elapsed >= max_duration

\* C1: an action whose type is in require_approval_for is in Executing (and so
\* can reach the Executor) only if this run entered WaitingForUser for that
\* same action before.
C1_ApprovalBeforeExecuting ==
    (state = "Executing" /\ action.type \in require_approval_for)
        => action.id \in awaited

C1_Witness ==
    /\ state = "Executing"
    /\ phase = "busy"
    /\ action.type \in require_approval_for
    /\ action.id \in awaited

\* C2: once stop() has been issued while the run was in WaitingForUser or
\* WaitingForStability (no decision being queued already), the run never
\* enters Executing again, whatever decision or stability result arrives
\* after the stop().
C2_NoExecutingAfterStopWhileWaiting ==
    [][(/\ stopAt # <<>>
        /\ stopAt[1] \in {"WaitingForUser", "WaitingForStability"}
        /\ stopAt[3])
          => ~EntersExecuting]_vars

\* C3: the consecutive-failure counter is the number of failed results at the
\* end of the run history (0 after a success, one more after each failure);
\* a run is active only while the counter is below max_consecutive_failures,
\* and the run is in Error for that reason exactly when the counter equals it.
TrailingFailures(h) ==
    LET fails(k) == \A i \in (Len(h) - k + 1)..Len(h) : ~h[i].success
    IN  CHOOSE k \in 0..Len(h) :
            /\ fails(k)
            /\ \A j \in 0..Len(h) : fails(j) => j <= k

C3_FailureCounter ==
    /\ failures = TrailingFailures(history)
    /\ Active => failures < max_consecutive_failures
    /\ failures >= max_consecutive_failures
          => (state = "Error" /\ message = "max_consecutive_failures"
                /\ failures = max_consecutive_failures)
    /\ message = "max_consecutive_failures" => failures = max_consecutive_failures

C3_Witness ==
    /\ state = "Error"
    /\ message = "max_consecutive_failures"
    /\ max_consecutive_failures = 2
    /\ Len(history) = 2
    /\ failures = 2

\* C4: a start_task call made while a run is active returns an error and
\* changes nothing of the engine, and never more than one run is active.
C4_StartWhileActiveRefused ==
    [][/\ (startSeq' # startSeq /\ Active)
             => (startResult' = "err" /\ UNCHANGED <<engineVars, activeRuns>>)
       /\ activeRuns' <= 1]_vars

C4_Witness ==
    /\ startResult = "err"
    /\ state = "Executing"
    /\ phase = "busy"
    /\ activeRuns = 1

\* C5: with stop() issued while an action is in flight, the engine's next step
\* is that action's completion with its ActionResult; with the stop flag set at
\* a transition boundary the only state change is to Idle; and after a stop
\* that arrived mid-action no further action is dispatched in the run.
C5_CooperativeCancellation ==
    [][/\ (state = "Executing" /\ phase = "busy" /\ stop_flag /\ EngineMoves)
             => /\ Len(history') = Len(history) + 1
                /\ history'[Len(history')].id = action.id
       /\ (Active /\ phase = "boundary" /\ stop_flag /\ state' # state)
             => state' = "Idle"
       /\ (stopAt # <<>> /\ stopAt[1] = "Executing" /\ stopAt[2] = "busy")
             => ~Dispatches]_vars

C5_Witness ==
    /\ stopAt = <<"Executing", "busy", TRUE>>
    /\ state = "Idle"
    /\ message = "stopped"
    /\ Len(history) = 1

\* C6: the event that resolves a pending approval was sent by a call that
\* arrived while an approval was pending; a call that arrived when none was
\* pending is never the one that resolves a later WaitingForUser.
C6_NoRetainedDecision ==
    [][(state = "WaitingForUser" /\ phase = "busy" /\ EngineMoves)
          => Head(event_rx).pending]_vars

\* C7: a received rejection ends the run in Idle (not Error) and the rejected
\* action is never handed to the Executor.
C7_RejectionReturnsToIdle ==
    rejected # 0
        => /\ state = "Idle"
           /\ message = "rejected"
           /\ rejected \notin Dispatched
           /\ activeRuns = 0

C7_Witness ==
    /\ rejected = 2
    /\ state = "Idle"
    /\ Len(history) = 1

\* C8: when the first planner turn of a run is finish_task, the run is in Done
\* and no transition into Executing and no dispatch happened in it.
C8_FinishOnFirstCycle ==
    firstTurn = "finish_task"
        => /\ state = "Done"
           /\ executions = 0
           /\ Dispatched = {}
           /\ history = <<>>

C8_Witness ==
    /\ firstTurn = "finish_task"
    /\ state = "Done"
    /\ loopCount = 1

\* C9: the run ends with the duration error only if max_duration is non-zero
\* and the elapsed time has reached it; an action in flight when the limit
\* passes still completes with its result; at a boundary past the limit the
\* only state change ends the run (Error for the duration, Idle if stop() was
\* also set); and no action is dispatched past the limit.
C9_DurationLimit ==
    [][/\ message' = "max_duration" => (state' = "Error" /\ DeadlinePassed')
       /\ (state = "Executing" /\ phase = "busy" /\ DeadlinePassed /\ EngineMoves)
             => Len(history') = Len(history) + 1
       /\ (Active /\ phase = "boundary" /\ DeadlinePassed /\ state' # state)
             => \/ (stop_flag /\ state' = "Idle")
                \/ (~stop_flag /\ state' = "Error" /\ message' = "max_duration")
       /\ Dispatches => ~DeadlinePassed]_vars

C9_Witness ==
    /\ state = "Error"
    /\ message = "max_duration"
    /\ max_duration = 1
    /\ elapsed = 2
    /\ Len(history) = 1
    /\ loopCount = 1

\* C10: once stop() has fired while the model stream is in progress, no further
\* chunk is forwarded and no turn completes: the engine's next step ends the
\* run, and the action of that turn is never dispatched.
C10_StreamCancelledOnStop ==
    [][/\ (state = "Planning" /\ phase = "busy" /\ stop_flag
             /\ (EngineMoves \/ chunks' # chunks))
             => state' = "Idle"
       /\ (stopAt # <<>> /\ stopAt[1] = "Planning" /\ stopAt[2] = "busy")
             => ~Dispatches]_vars

\* C11: WaitingForUser is the only state a run can stay in forever: from
\* Executing, from WaitingForStability and from Planning the engine eventually
\* leaves the state, even when no stop_task and no confirm_action ever arrives.
C11_OnlyApprovalWaitsIndefinitely ==
    /\ (state = "Executing") ~> (state # "Executing")
    /\ (state = "WaitingForStability") ~> (state # "WaitingForStability")
    /\ (state = "Planning" /\ loopCount < MaxCycles) ~> (state # "Planning")

\* C18: the engine is in exactly one AgentState variant; perception is
\* requested (a planning cycle begins, or the capture fails) only in a step
\* taken in Planning; an action pending completion is held exactly in Executing
\* and WaitingForStability (in flight or completed and settling), the only
\* other variant with an action is WaitingForUser, whose action has not been
\* handed to the Executor, and no other variant holds an action.
RequestsPerception ==
    \/ loopCount' = loopCount + 1
    \/ (message' = "capture" /\ message # "capture")

C20_LabelRoundTrip ==
    lpc = "parsed" => coord = Some([col |-> cell[1], row |-> cell[2]])

ExecutorFailed ==
    \/ element_id \notin elements
    \/ ~move_ok
    \/ ~button_ok

C14_ExecutorNeverRaises ==
    /\ [](/\ epc # "panicked"
          /\ epc = "returned"
                => /\ action_result.success = ~ExecutorFailed
                   /\ ExecutorFailed => action_result.error # None)
    /\ [][(epc = "returned" /\ epc' = "idle")
            => /\ Len(history') = Len(history) + 1
               /\ history'[Len(history')].success = action_result.success
               /\ state' \in {"Planning", "WaitingForStability", "Error"}
               /\ state' = "Error" => failures' >= max_consecutive_failures]_vars

C14_Witness ==
    /\ state = "Planning"
    /\ Len(history) = 1
    /\ ~history[1].success
    /\ exec_result = Err("move_mouse failed")
    /\ action_result = [success |-> FALSE, error |-> Some("move_mouse failed")]
    /\ failures = 1

\* C15: a stability wait always returns, whatever the frames show: it is never
\* still waiting after max_wait_ms, and once the cancellation flag is set the
\* next round of the wait returns.
C15_StabilityWaitReturns ==
    /\ (spc = "waiting") ~> (spc = "returned")
    /\ [](spc = "waiting" => waited_ms <= max_wait_ms)
    /\ [](spc = "returned" => waited_ms <= max_wait_ms)
    /\ [][(spc = "waiting" /\ cancel)
            => (spc' = "returned" /\ stab_result' = OkBool(FALSE))]_vars

C15_Witness ==
    /\ spc = "returned"
    /\ stab_result = OkBool(FALSE)
    /\ ~cancel
    /\ waited_ms = max_wait_ms
    /\ recent = <<30, 30, 30>>

\* C16: the wait returns true only right after min_stable_frames consecutive
\* frames whose difference is below the threshold; a frame at or above the
\* threshold restarts the run; and false is returned only on timeout or
\* cancellation, with no such run at the end.
RECURSIVE TrailingBelow(_)
TrailingBelow(window) ==
    IF window = <<>> \/ window[Len(window)] >= stability_threshold THEN 0
    ELSE 1 + TrailingBelow(SubSeq(window, 1, Len(window) - 1))

C16_StableRunBeforeTrue ==
    /\ stab_result = OkBool(TRUE) => TrailingBelow(recent) >= min_stable_frames
    /\ spc = "waiting" => /\ stable_frame_count = TrailingBelow(recent)
                          /\ TrailingBelow(recent) < min_stable_frames
    /\ stab_result = OkBool(FALSE)
          => /\ cancel \/ waited_ms >= max_wait_ms
             /\ TrailingBelow(recent) < min_stable_frames

C16_Witness ==
    /\ stab_result = OkBool(TRUE)
    /\ recent = <<20, 10, 10>>
    /\ waited_ms = 4 * check_interval_ms

\* C13: stream chunks reach the window at once and in arrival order: each
\* chunk is emitted by the step that reads it, and once the window has handled
\* a turn's done chunk, its assistant message for that turn holds exactly the
\* turn's content chunks, and its reasoning chunks, in order.
C13_StreamedMessageComplete ==
    /\ [](\A k \in doneSeen :
            /\ k <= Len(messages)
            /\ messages[k].content = TextOf(sent[k], "content")
            /\ messages[k].reasoningContent = TextOf(sent[k], "reasoning"))
    /\ [][chunks' = chunks + 1
            => /\ ui_events' # <<>>
               /\ ui_events'[Len(ui_events')].ev = "llm_stream_chunk"
               /\ ui_events'[Len(ui_events')].n = chunks']_vars

\* C17: the Safety Gate keeps no memory of approvals: its set of types never
\* changes, every listed action in Executing was held in WaitingForUser first,
\* and the only step that releases it consumes a UserApproved the caller sent,
\* also after the window recorded the type as permanently allowed.
C17_GateHasNoMemory ==
    /\ [](state = "Executing" /\ action.type \in require_approval_for
            => action.id \in awaited)
    /\ [][require_approval_for' = require_approval_for]_vars
    /\ [][(state' = "Executing" /\ state # "Executing"
             /\ action'.type \in require_approval_for)
            => /\ state = "WaitingForUser"
               /\ event_rx # <<>>
               /\ Head(event_rx).kind = "UserApproved"
               /\ event_rx' = Tail(event_rx)]_vars

C17_Witness ==
    /\ permanentlyAllowed = {"execute_terminal"}
    /\ state = "Executing"
    /\ action = [type |-> "execute_terminal", id |-> 2]
    /\ awaited = {1, 2}
    /\ autoConfirmed = {2}
    /\ pendingApproval = None

\* the window has handled every event and every invoke() has returned, and
\* the engine has no decision left to receive
Quiescent ==
    /\ ui_events = <<>>
    /\ event_rx = <<>>
    /\ \A c \in DOMAIN ui_pending : ui_pending[c] = 0

\* C19: an approval request exists only while its action awaits a decision:
\* once everything in flight is handled, a pendingApproval in the window is
\* the request of the action the engine holds in WaitingForUser.
C19_ApprovalRequestLifecycle ==
    (Quiescent /\ pendingApproval # None)
        => /\ state = "WaitingForUser"
           /\ action.id = pendingApproval.some.id

\* C25: after Executing completes and the run goes on, it enters
\* WaitingForStability exactly when the executed action is of a kind that
\* changes the screen, and Planning otherwise.
C25_StabilityIffScreenChanging ==
    [][(state = "Executing" /\ phase = "busy" /\ Len(history') = Len(history) + 1
          /\ state' # "Error")
        => state' = (IF action.type \in StabilityKinds
                     THEN "WaitingForStability" ELSE "Planning")]_vars

C23_TransportFailureIsFailedCycle ==
    /\ [](attempts <= max_planner_retries)
    /\ [][attempts' > attempts
            => /\ state = "Planning" /\ state' = "Planning"
               /\ phase' = "busy"
               /\ loopCount' = loopCount
               /\ failures' = failures]_vars
    /\ [][(state = "Planning" /\ phase = "busy" /\ phase' = "boundary"
             /\ state' \in {"Planning", "Error"})
            => /\ attempts = max_planner_retries
               /\ transport_error' # None
               /\ failures' = failures + 1
               /\ state' = "Error" <=> failures' >= max_consecutive_failures]_vars

C23_Witness ==
    /\ state = "Planning"
    /\ phase = "boundary"
    /\ attempts = max_planner_retries
    /\ transport_error = Some("NetworkError")
    /\ failures = 1
    /\ loopCount = 1
    /\ activeRuns = 1

\* C21 as stated: a bbox centred at (0,0) resolves to the monitor origin and
\* one centred at (1,1) to exactly (monitor_x + logical_width * s,
\* monitor_y + logical_height * s).
C21_CornersExact ==
    cpc = "bbox" =>
        /\ bbox = <<0, 0, 0, 0>>
             => point = Some([x |-> meta.monitor_x, y |-> meta.monitor_y])
        /\ bbox = <<4, 4, 4, 4>>
             => /\ 4 * (point.some.x - meta.monitor_x)
                     = meta.logical_width * meta.scale_factor
                /\ 4 * (point.some.y - meta.monitor_y)
                     = meta.logical_height * meta.scale_factor

\* C21 amended: a bbox centred at (0,0) resolves to the monitor origin and one
\* centred at (1,1) to the whole pixel nearest to (monitor_x + logical_width * s,
\* monitor_y + logical_height * s): at most half a pixel away on each axis.
C21_CornersRounded ==
    cpc = "bbox" =>
        /\ bbox = <<0, 0, 0, 0>>
             => point = Some([x |-> meta.monitor_x, y |-> meta.monitor_y])
        /\ bbox = <<4, 4, 4, 4>>
             => LET dx == 4 * (point.some.x - meta.monitor_x)
                            - meta.logical_width * meta.scale_factor
                    dy == 4 * (point.some.y - meta.monitor_y)
                            - meta.logical_height * meta.scale_factor
                IN  /\ -2 <= dx /\ dx <= 2
                    /\ -2 <= dy /\ dy <= 2

C21_Witness ==
    /\ cpc = "bbox"
    /\ bbox = <<4, 4, 4, 4>>
    /\ meta = [logical_width |-> 1093, logical_height |-> 3, scale_factor |-> 5,
               monitor_x |-> -1920, monitor_y |-> 0]
    /\ point = Some([x |-> -554, y |-> 4])

\* C30: grid_cell_to_physical returns None or a point inside the captured
\* monitor's physical rectangle, for every label and every grid size; a label
\* whose column or row index is grid_n or more is rejected.
C30_GridPointInsideMonitor ==
    cpc = "grid" =>
        /\ point # None =>
             /\ meta.monitor_x <= point.some.x
             /\ 4 * (point.some.x - meta.monitor_x)
                    <= meta.logical_width * meta.scale_factor
             /\ meta.monitor_y <= point.some.y
             /\ 4 * (point.some.y - meta.monitor_y)
                    <= meta.logical_height * meta.scale_factor
        /\ LET parsed == parse_grid_label(cell_label)
           IN  (parsed # None /\ (parsed.some.col >= cell_grid_n
                                   \/ parsed.some.row >= cell_grid_n))
                  => point = None

\* the region of a grid cell, [col/N, row/N, (col+1)/N, (row+1)/N], in units
\* of 1/N
CellRegion(c) ==
    [xmin |-> c.col, ymin |-> c.row, xmax |-> c.col + 1, ymax |-> c.row + 1]

RegionsOverlap(a, b) ==
    /\ a.xmin < b.xmax /\ b.xmin < a.xmax
    /\ a.ymin < b.ymax /\ b.ymin < a.ymax

\* C22: in an N x N grid the label drawn for every cell is valid (it resolves
\* to a cell of the grid), and the labels of two different cells of the same
\* row or column resolve to different cells whose regions do not overlap.
C22_GridLabelsValidDistinct ==
    lpc = "parsed" =>
        /\ coord # None
        /\ coord.some.col < grid_n
        /\ coord.some.row < grid_n
        /\ \A k \in 0..(grid_n - 1) :
             \A other \in {<<k, cell[2]>>, <<cell[1], k>>} \ {cell} :
                LET there == parse_grid_label(format_label(other[1], other[2]))
                IN  there # None
                      => /\ there # coord
                         /\ ~RegionsOverlap(CellRegion(there.some),
                                            CellRegion(coord.some))

\* the cleanup of effect run i has run
CleanedUp(i) == i \in DOMAIN effects /\ ~effects[i].active

\* the listen() promise of effect run i has resolved and Tauri no longer
\* holds its callback
Unlistened(i) ==
    /\ i \in DOMAIN effects
    /\ effects[i].promise = "resolved"
    /\ i \notin registered

\* C26: once an effect's cleanup has run its handler is not invoked again
\* and its listener is unregistered as soon as its listen() promise has
\* resolved, which always happens, also when the cleanup ran first; every
\* backend event invokes the handler of at most one effect, and of exactly
\* one when the live effect's listener is registered.
C26_CleanedUpEffectIsSilent ==
    /\ [][emitted' # emitted =>
            /\ \A i \in DOMAIN effects : CleanedUp(i) => i \notin invoked'
            /\ Cardinality(invoked') <= 1
            /\ \A i \in registered : effects[i].active => invoked' = {i}]_vars
    /\ [](\A i \in DOMAIN effects :
            CleanedUp(i) /\ effects[i].promise = "resolved" => Unlistened(i))
    /\ \A i \in 1..MaxMounts :
            CleanedUp(i) ~> Unlistened(i)

\* mount, unmount before listen() resolved, mount: the event reaches the
\* second effect's handler only, the first listener is gone
C26_Witness ==
    /\ Len(effects) >= 2
    /\ ~effects[1].active /\ ~effects[1].unlisten
    /\ effects[1].promise = "resolved" /\ 1 \notin registered
    /\ effects[2].active /\ 2 \in registered
    /\ emitted >= 1 /\ invoked = {2}

\* C27: at most one message of AgentStore has isStreaming = true, and it
\* is the message currentStreamingId identifies.
C27_OneStreamingMessage ==
    \A i \in DOMAIN messages : messages[i].isStreaming => i = currentStreamingId

\* C28: while the run the window started is active, isRunning is true
\* and no step invokes start_task.
C28_NoStartWhileRunActive ==
    /\ [](Active => isRunning)
    /\ [][startSeq' # startSeq => ~Active]_vars

\* C29: a step in which the window sends confirm_action, by a press on
\* Approve or Deny or by an automatic approval, sends the first decision
\* for its request: none was sent for that request id before.
C29_OneDecisionPerRequest ==
    [][/\ ui_pending'["confirm_action"] > ui_pending["confirm_action"]
            => pendingApproval.some.id \notin decided \cup autoConfirmed
       /\ (Len(event_rx') > Len(event_rx) /\ ui_pending' = ui_pending)
            => Head(ui_events).id \notin decided \cup autoConfirmed]_vars

====
